---------------------------- MODULE Spec2Model ----------------------------
(***************************************************************************)
(* Model of src/main.go: upsertMultipleFilesSafe running against a remote  *)
(* Git hosting repository (one branch), interleaved with another actor     *)
(* that writes the same branch.                                            *)
(*                                                                         *)
(* Every remote call of the function is one atomic step; the other actor   *)
(* may act between any two of them.  Blob and tree identifiers are content *)
(* derived, so a blob SHA is modelled by the content it names and a tree   *)
(* SHA by the path -> blob mapping it names.  A commit SHA is the index of *)
(* the commit object in the remote object store.                           *)
(***************************************************************************)
EXTENDS Integers, Sequences, FiniteSets, TLC

\* ------------------------------------------------------------- bounds
MaxCommits == 3      \* commit objects the remote store may hold
MaxCalls   == 2      \* consecutive calls of upsertMultipleFilesSafe
MaxOther   == 2      \* writes of the other actor
MaxRepoCalls == 3    \* consecutive calls of createRepo

Paths    == {"a.txt", "b.txt"}
Contents == {"hello", "world"}

\* ------------------------------------------------------------- values
Absent == "<absent>"             \* no tree entry at a path
Dir    == "<dir>"                \* the path is a directory, not a file
NoRef  == 0                      \* refs/heads/<branch> does not exist
NoCommit == 0
Nil    == "nil"                  \* the nil error
EmptyMap == [p \in {} |-> ""]

TreeVals == Contents \cup {Absent, Dir}
Trees    == [Paths -> TreeVals]
FileSets == UNION {[D -> Contents] : D \in SUBSET Paths}
\* trees the branch may start with: every kind of entry at a.txt, a file or
\* nothing at b.txt (the other contents arise from the other actor's pushes)
InitTrees == {t \in Trees : t["a.txt"] # "world" /\ t["b.txt"] \in {Absent, "hello"}}

VARIABLES
  ref,              \* remote: commit the branch points to, or NoRef
  commits,          \* remote: sequence of commit objects [tree, parents, by]
  pc,               \* position of the running call
  files,            \* argument files
  result,           \* local result map
  todo,             \* keys of files the range loop has not visited yet
  path,             \* loop variable between GetContents and CreateBlob
  treeEntries,      \* local treeEntries, path -> blob
  originalHeadSHA,  \* local originalHeadSHA
  baseTreeSHA,      \* local baseTreeSHA: <<>> for "", <<t>> for the SHA of t
  refCheck,         \* SHA read by the recheck GetRef
  newTree,          \* tree returned by CreateTree, as <<t>>
  newCommit,        \* commit created by this call, or NoCommit
  err,              \* error returned by the call
  refStatus,        \* response of the initial GetRef
  ops,              \* history: remote calls this call has made
  movedFrom,        \* history: <<v>> if this call wrote the ref when it was v
  interf,           \* history: kinds of other-actor writes during this call
  fault,            \* history: some remote call of this call failed
  reads,            \* history: path -> what GetContents returned for it and
                    \*          how its CreateBlob ended ("none", "ok", "failed")
  prev,             \* history: <<files>> of the previous call if it was clean
  ncalls,           \* calls started
  nother,           \* other-actor writes made
  \* createRepo
  repoExists,       \* remote: the repository owner/repoName exists
  rpc,              \* position of the running createRepo call
  rlookup,          \* response of Repositories.Get in this call
  rerr,             \* error returned by createRepo
  rexisted,         \* history: the repository existed at this call's lookup
  rmade,            \* history: Repositories.Create calls of this call
  rcreates,         \* history: Repositories.Create calls of all calls
  rfailed,          \* history: Repositories.Create calls that failed
  rtruth,           \* history: every lookup so far reported the existence
  rcalls,           \* createRepo calls started
  \* a second, concurrent upsertMultipleFilesSafe call on the same branch
  ppc,              \* its position
  pOrig,            \* its originalHeadSHA
  pCommit,          \* the commit it created, or NoCommit
  perr              \* the error it returned

remote == <<ref, commits>>
locals == <<pc, files, result, todo, path, treeEntries, originalHeadSHA,
            baseTreeSHA, refCheck, newTree, newCommit, err, refStatus>>
ghosts == <<ops, movedFrom, interf, fault, reads, prev, ncalls, nother>>
rvars  == <<repoExists, rpc, rlookup, rerr, rexisted, rmade, rcreates,
            rfailed, rtruth, rcalls>>
pvars  == <<ppc, pOrig, pCommit, perr>>
outside == <<rvars, pvars>>
vars   == <<remote, locals, ghosts, rvars, pvars>>

\* ------------------------------------------------------------- remote
TreeOf(c) == commits[c].tree

RECURSIVE IsAncestorOrEqual(_, _)
\* a is b or an ancestor of b in the commit graph (fast-forward test)
IsAncestorOrEqual(a, b) ==
  IF a = b THEN TRUE
  ELSE \E i \in 1..Len(commits[b].parents) :
         IsAncestorOrEqual(a, commits[b].parents[i])

\* Git.CreateTree: entries layered over the base tree, or over nothing
RemoteCreateTree(base, entries) ==
  [p \in Paths |-> IF p \in DOMAIN entries THEN entries[p]
                   ELSE IF base = <<>> THEN Absent ELSE base[1][p]]

\* Git.UpdateRef accepts: the ref exists and, unless forced, the update is
\* a fast-forward of the commit it points to
RemoteUpdateRefOk(new, force) ==
  /\ ref # NoRef
  /\ force \/ IsAncestorOrEqual(ref, new)

\* Repositories.GetContents at Ref: branch -- what the remote truly holds
RemoteContents(p) ==
  IF ref = NoRef THEN [kind |-> "404", content |-> ""]
  ELSE LET v == TreeOf(ref)[p] IN
       IF v = Absent THEN [kind |-> "404", content |-> ""]
       ELSE IF v = Dir THEN [kind |-> "dir", content |-> ""]
       ELSE [kind |-> "file", content |-> v]

\* ------------------------------------------------------------- code
\* result[p] = s / treeEntries = append(treeEntries, entry for p)
Put(m, p, s) == [q \in DOMAIN m \cup {p} |-> IF q = p THEN s ELSE m[q]]

\* line 26 taking every failure of GetRef for an empty repository
IsBootstrapStatusAnyFailure(code) == TRUE

\* line 26 testing for 404 alone
IsBootstrapStatus404Only(code) == code = "404"

\* line 26: the GetRef failures that select the bootstrap path
IsBootstrapStatus(code) == code \in {"404", "409"}

\* line 103 left out
MarkDefaultOmitted(res, p) == res

\* line 103: the pessimistic default of the update loop
MarkDefault(res, p) == Put(res, p, "error")

\* line 113 with the comparison inverted
SameContentInverted(decoded, newContent) == decoded # newContent

\* line 113: byte-exact comparison of decoded and desired content
SameContent(decoded, newContent) == decoded = newContent

\* lines 106-120 taking every failed read for a missing file
ClassifyErrAsCreated(kind, decoded, newContent) ==
  IF kind \in {"404", "err"} THEN [set |-> "created", write |-> TRUE]
  ELSE IF kind = "file" THEN
         IF SameContent(decoded, newContent)
           THEN [set |-> "skipped", write |-> FALSE]
           ELSE [set |-> "updated", write |-> TRUE]
  ELSE IF kind = "decodeErr" THEN [set |-> "keep", write |-> FALSE]
  ELSE [set |-> "keep", write |-> TRUE]

\* lines 106-120: status to set ("keep" leaves the default) and whether the
\* loop body goes on to CreateBlob.  kind is the shape of the read:
\* "404", "file", "decodeErr" (read ok, GetContent fails), "err" (any other
\* read failure), "dir" (err == nil, current == nil, no 404)
Classify(kind, decoded, newContent) ==
  IF kind = "404" THEN [set |-> "created", write |-> TRUE]
  ELSE IF kind = "file" THEN
         IF SameContent(decoded, newContent)
           THEN [set |-> "skipped", write |-> FALSE]
           ELSE [set |-> "updated", write |-> TRUE]
  ELSE IF kind = "decodeErr" THEN [set |-> "keep", write |-> FALSE]
  ELSE IF kind = "err" THEN [set |-> "keep", write |-> FALSE]
  ELSE [set |-> "keep", write |-> TRUE]

\* line 138 never taking the early return
NoChangesNever(entries) == FALSE

\* line 138: len(treeEntries) == 0
NoChanges(entries) == DOMAIN entries = {}

\* line 147 testing only that the branch still exists
ShaMismatchOnlyIfDeleted(seen, orig) == seen = NoCommit

\* line 147 never reporting a mismatch
ShaMismatchNever(seen, orig) == FALSE

\* line 147: refCheck.Object.GetSHA() != originalHeadSHA
ShaMismatch(seen, orig) == seen # orig

\* lines 55-58: the bootstrap commit names no parent
InitParents == <<>>

\* lines 163-167 with the Parents field left out
UpdateParentsNone(orig) == <<>>

\* lines 163-167: the update commit names originalHeadSHA as only parent
UpdateParents(orig) == <<orig>>

\* line 151: the base handed to CreateTree on the update path
UpdateTreeBase(base) == base

\* line 175 forcing the update
UpdateRefForced == TRUE

\* line 175: the force argument of UpdateRef
UpdateRefForce == FALSE

\* lines 176-181 with the error test inverted
ErrAfterUpdateRefInverted(ok) == IF ok THEN "UpdateRef" ELSE Nil

\* lines 176-181: error returned after UpdateRef
ErrAfterUpdateRef(ok) == IF ok THEN Nil ELSE "UpdateRef"

\* ------------------------------------------------------------- frames
Return(e) == pc' = "done" /\ err' = e
Op(name)  == ops' = ops \cup {name}
Fault(b)  == fault' = (fault \/ b)
CallGhosts == <<movedFrom, interf, prev, ncalls, nother>>

\* after an iteration of the update loop: next key, or line 138
AfterIter(left, entries) ==
  IF left # {} THEN pc' = "GetContents" /\ err' = err
  ELSE IF NoChanges(entries) THEN Return(Nil)
  ELSE pc' = "Recheck" /\ err' = err

\* ------------------------------------------------------------- Init
\* no upsert call has started
UpsertIdle ==
  /\ pc = "idle"
  /\ files = EmptyMap
  /\ result = EmptyMap
  /\ todo = {}
  /\ path = ""
  /\ treeEntries = EmptyMap
  /\ originalHeadSHA = NoCommit
  /\ baseTreeSHA = <<>>
  /\ refCheck = NoCommit
  /\ newTree = <<>>
  /\ newCommit = NoCommit
  /\ err = Nil
  /\ refStatus = "none"
  /\ ops = {}
  /\ movedFrom = <<>>
  /\ interf = {}
  /\ fault = FALSE
  /\ reads = EmptyMap
  /\ prev = <<>>
  /\ ncalls = 0
  /\ nother = 0

\* createRepo has returned nil (main, lines 305-308)
RepoReady ==
  /\ repoExists = TRUE
  /\ rpc = "done"
  /\ rlookup = [err |-> FALSE, resp |-> TRUE, code |-> 200]
  /\ rerr = Nil
  /\ rexisted = TRUE
  /\ rmade = 0
  /\ rcreates = 0
  /\ rfailed = 0
  /\ rtruth = TRUE
  /\ rcalls = 1

\* no second upsert call is running
PeerIdle ==
  /\ ppc = "idle"
  /\ pOrig = NoCommit
  /\ pCommit = NoCommit
  /\ perr = Nil

Init ==
  /\ \/ ref = NoRef /\ commits = <<>>
     \/ \E t \in InitTrees :
          /\ ref = 1
          /\ commits = <<[tree |-> t, parents |-> <<>>, by |-> "init"]>>
  /\ UpsertIdle
  /\ RepoReady
  /\ PeerIdle

\* ------------------------------------------------------------- upsert
\* lines 15-26, 79-82: entry and the initial GetRef
Call(F) ==
  /\ UNCHANGED outside
  /\ pc \in {"idle", "done"}
  /\ ncalls < MaxCalls
  /\ ncalls' = ncalls + 1
  /\ prev' = IF pc = "done" /\ err = Nil /\ ~fault /\ interf = {}
             THEN <<files>> ELSE <<>>
  /\ files' = F
  /\ result' = EmptyMap
  /\ todo' = DOMAIN F
  /\ path' = ""
  /\ treeEntries' = EmptyMap
  /\ baseTreeSHA' = <<>>
  /\ refCheck' = NoCommit
  /\ newTree' = <<>>
  /\ newCommit' = NoCommit
  /\ ops' = {"GetRef"}
  /\ movedFrom' = <<>>
  /\ interf' = {}
  /\ reads' = EmptyMap
  /\ UNCHANGED <<remote, nother>>
  /\ \E st \in {"ok", "404", "409"} :
       /\ st = "ok" <=> ref # NoRef
       /\ refStatus' = st
       /\ fault' = FALSE
       /\ IF st = "ok"
            THEN /\ originalHeadSHA' = ref
                 /\ pc' = "GetCommit"
                 /\ err' = Nil
            ELSE /\ originalHeadSHA' = NoCommit
                 /\ IF IsBootstrapStatus(st)
                      THEN /\ pc' = IF F = EmptyMap THEN "CreateTreeInit"
                                    ELSE "CreateBlobInit"
                           /\ err' = Nil
                      ELSE Return("GetRef")

\* failures of line 24 other than 404 and 409: another status, or an error
\* that is not a *github.ErrorResponse
OtherGetRefFailures == {"500", "transport"}

\* line 24 failing for a reason other than the ref being absent
CallGetRefFails(F) ==
  /\ UNCHANGED outside
  /\ pc \in {"idle", "done"}
  /\ ncalls < MaxCalls
  /\ ncalls' = ncalls + 1
  /\ prev' = <<>>
  /\ files' = F
  /\ result' = EmptyMap
  /\ todo' = DOMAIN F
  /\ path' = ""
  /\ treeEntries' = EmptyMap
  /\ originalHeadSHA' = NoCommit
  /\ baseTreeSHA' = <<>>
  /\ refCheck' = NoCommit
  /\ newTree' = <<>>
  /\ newCommit' = NoCommit
  /\ ops' = {"GetRef"}
  /\ movedFrom' = <<>>
  /\ interf' = {}
  /\ reads' = EmptyMap
  /\ fault' = TRUE
  /\ \E st \in OtherGetRefFailures :
       /\ refStatus' = st
       /\ IF st # "transport" /\ IsBootstrapStatus(st)
            THEN /\ pc' = IF F = EmptyMap THEN "CreateTreeInit"
                          ELSE "CreateBlobInit"
                 /\ err' = Nil
            ELSE Return("GetRef")
  /\ UNCHANGED <<remote, nother>>

\* lines 30-48: one iteration of the bootstrap loop
CreateBlobInit ==
  /\ UNCHANGED outside
  /\ pc = "CreateBlobInit"
  /\ \E p \in todo :
       /\ todo' = todo \ {p}
       /\ \/ /\ result' = Put(result, p, "created")
             /\ treeEntries' = Put(treeEntries, p, files[p])
             /\ pc' = IF todo' = {} THEN "CreateTreeInit" ELSE "CreateBlobInit"
             /\ err' = err
             /\ Fault(FALSE)
          \/ /\ result' = Put(Put(result, p, "created"), p, "error")
             /\ treeEntries' = treeEntries
             /\ Return("CreateBlob (init)")
             /\ Fault(TRUE)
  /\ Op("CreateBlob")
  /\ UNCHANGED <<remote, files, path, originalHeadSHA, baseTreeSHA, refCheck,
                 newTree, newCommit, refStatus, reads,
                 CallGhosts>>

\* lines 50-53
CreateTreeInit ==
  /\ UNCHANGED outside
  /\ pc = "CreateTreeInit"
  /\ \/ /\ newTree' = <<RemoteCreateTree(<<>>, treeEntries)>>
        /\ pc' = "CreateCommitInit"
        /\ err' = err
        /\ Fault(FALSE)
     \/ /\ newTree' = newTree
        /\ Return("CreateTree (init)")
        /\ Fault(TRUE)
  /\ Op("CreateTree")
  /\ UNCHANGED <<remote, files, result, todo, path, treeEntries,
                 originalHeadSHA, baseTreeSHA, refCheck, newCommit, refStatus,
                 reads,
                 CallGhosts>>

\* lines 55-63
CreateCommitInit ==
  /\ UNCHANGED outside
  /\ pc = "CreateCommitInit"
  /\ \/ /\ Len(commits) < MaxCommits
        /\ commits' = Append(commits, [tree |-> newTree[1],
                                       parents |-> InitParents, by |-> "A"])
        /\ newCommit' = Len(commits) + 1
        /\ pc' = "CreateRef"
        /\ err' = err
        /\ Fault(FALSE)
     \/ /\ UNCHANGED <<commits, newCommit>>
        /\ Return("CreateCommit (init)")
        /\ Fault(TRUE)
  /\ Op("CreateCommit")
  /\ UNCHANGED <<ref, files, result, todo, path, treeEntries, originalHeadSHA,
                 baseTreeSHA, refCheck, newTree, refStatus, reads,
                 CallGhosts>>

\* lines 65-77: CreateRef succeeds only if the ref does not exist yet
CreateRef ==
  /\ UNCHANGED outside
  /\ pc = "CreateRef"
  /\ \/ /\ ref = NoRef
        /\ ref' = newCommit
        /\ movedFrom' = <<ref>>
        /\ Return(Nil)
        /\ Fault(FALSE)
     \/ /\ UNCHANGED <<ref, movedFrom>>
        /\ Return("CreateRef (init)")
        /\ Fault(TRUE)
  /\ Op("CreateRef")
  /\ UNCHANGED <<commits, files, result, todo, path, treeEntries,
                 originalHeadSHA, baseTreeSHA, refCheck, newTree, newCommit,
                 refStatus, interf, reads, prev, ncalls, nother>>

\* lines 84-98: GetCommit at originalHeadSHA.  The response is the commit
\* ("ok"), an error ("err"), a body without commit ("nilCommit"), or a
\* commit without tree reference ("noTree": Tree.GetSHA() yields "")
GetCommit ==
  /\ UNCHANGED outside
  /\ pc = "GetCommit"
  /\ \E resp \in {"ok", "err", "nilCommit", "noTree"} :
       /\ Fault(resp # "ok")
       /\ IF resp = "err" THEN
            /\ Return("GetCommit")
            /\ UNCHANGED baseTreeSHA
          ELSE IF resp = "nilCommit" THEN
            /\ Return("baseCommit is nil")
            /\ UNCHANGED baseTreeSHA
          ELSE
            /\ baseTreeSHA' = IF resp = "ok"
                                THEN <<TreeOf(originalHeadSHA)>> ELSE <<>>
            /\ AfterIter(todo, treeEntries)
  /\ Op("GetCommit")
  /\ UNCHANGED <<remote, files, result, todo, path, treeEntries,
                 originalHeadSHA, refCheck, newTree, newCommit, refStatus,
                 reads,
                 CallGhosts>>

\* lines 102-120: default status, GetContents at the branch, classification
GetContents ==
  /\ UNCHANGED outside
  /\ pc = "GetContents"
  /\ \E p \in todo :
       \E o \in {RemoteContents(p)}
                 \cup {[kind |-> "err", content |-> ""]}
                 \cup {[kind |-> "decodeErr", content |-> ""] :
                         x \in {y \in {RemoteContents(p)} : y.kind = "file"}} :
         LET c == Classify(o.kind, o.content, files[p]) IN
         /\ todo' = todo \ {p}
         /\ result' = IF c.set = "keep" THEN MarkDefault(result, p)
                      ELSE Put(MarkDefault(result, p), p, c.set)
         /\ Fault(o.kind \in {"err", "decodeErr"})
         /\ reads' = Put(reads, p, [kind |-> o.kind, content |-> o.content,
                                    blob |-> "none"])
         /\ IF c.write
              THEN /\ path' = p
                   /\ pc' = "CreateBlob"
                   /\ err' = err
              ELSE /\ path' = path
                   /\ AfterIter(todo', treeEntries)
  /\ Op("GetContents")
  /\ UNCHANGED <<remote, files, treeEntries, originalHeadSHA, baseTreeSHA,
                 refCheck, newTree, newCommit, refStatus, CallGhosts>>

\* lines 122-136: CreateBlob; a failure only skips the append
CreateBlob ==
  /\ UNCHANGED outside
  /\ pc = "CreateBlob"
  /\ \/ /\ treeEntries' = Put(treeEntries, path, files[path])
        /\ reads' = [reads EXCEPT ![path].blob = "ok"]
        /\ Fault(FALSE)
     \/ /\ treeEntries' = treeEntries
        /\ reads' = [reads EXCEPT ![path].blob = "failed"]
        /\ Fault(TRUE)
  /\ AfterIter(todo, treeEntries')
  /\ path' = ""
  /\ Op("CreateBlob")
  /\ UNCHANGED <<remote, files, result, todo, originalHeadSHA, baseTreeSHA,
                 refCheck, newTree, newCommit, refStatus, CallGhosts>>

\* lines 143-149: the recheck GetRef and the SHA comparison
Recheck ==
  /\ UNCHANGED outside
  /\ pc = "Recheck"
  /\ \/ /\ ref # NoRef
        /\ refCheck' = ref
        /\ Fault(FALSE)
        /\ IF ShaMismatch(ref, originalHeadSHA)
             THEN Return("SHA mismatch")
             ELSE pc' = "CreateTree" /\ err' = err
     \/ /\ refCheck' = refCheck
        /\ Fault(TRUE)
        /\ Return("Recheck GetRef")
  /\ Op("Recheck")
  /\ UNCHANGED <<remote, files, result, todo, path, treeEntries,
                 originalHeadSHA, baseTreeSHA, newTree, newCommit, refStatus,
                 reads,
                 CallGhosts>>

\* lines 151-154
CreateTree ==
  /\ UNCHANGED outside
  /\ pc = "CreateTree"
  /\ \/ /\ newTree' = <<RemoteCreateTree(UpdateTreeBase(baseTreeSHA),
                                         treeEntries)>>
        /\ pc' = "CreateCommit"
        /\ err' = err
        /\ Fault(FALSE)
     \/ /\ newTree' = newTree
        /\ Return("CreateTree")
        /\ Fault(TRUE)
  /\ Op("CreateTree")
  /\ UNCHANGED <<remote, files, result, todo, path, treeEntries,
                 originalHeadSHA, baseTreeSHA, refCheck, newCommit, refStatus,
                 reads,
                 CallGhosts>>

\* lines 156-172
CreateCommit ==
  /\ UNCHANGED outside
  /\ pc = "CreateCommit"
  /\ \/ /\ Len(commits) < MaxCommits
        /\ commits' = Append(commits,
                        [tree |-> newTree[1],
                         parents |-> UpdateParents(originalHeadSHA),
                         by |-> "B"])
        /\ newCommit' = Len(commits) + 1
        /\ pc' = "UpdateRef"
        /\ err' = err
        /\ Fault(FALSE)
     \/ /\ UNCHANGED <<commits, newCommit>>
        /\ Return("CreateCommit")
        /\ Fault(TRUE)
  /\ Op("CreateCommit")
  /\ UNCHANGED <<ref, files, result, todo, path, treeEntries, originalHeadSHA,
                 baseTreeSHA, refCheck, newTree, refStatus, reads,
                 CallGhosts>>

\* lines 174-181: UpdateRef(ref, force = false)
UpdateRef ==
  /\ UNCHANGED outside
  /\ pc = "UpdateRef"
  /\ \/ /\ RemoteUpdateRefOk(newCommit, UpdateRefForce)
        /\ ref' = newCommit
        /\ movedFrom' = <<ref>>
        /\ Return(ErrAfterUpdateRef(TRUE))
        /\ Fault(FALSE)
     \/ /\ UNCHANGED <<ref, movedFrom>>
        /\ Return(ErrAfterUpdateRef(FALSE))
        /\ Fault(TRUE)
  /\ Op("UpdateRef")
  /\ UNCHANGED <<commits, files, result, todo, path, treeEntries,
                 originalHeadSHA, baseTreeSHA, refCheck, newTree, newCommit,
                 refStatus, interf, reads, prev, ncalls, nother>>

\* ------------------------------------------------------------- other actor
\* the other actor writes before or while the call runs; a write made while
\* it runs is recorded against it
Noted(kind) ==
  /\ UNCHANGED outside
  /\ pc # "done"
  /\ nother' = nother + 1
  /\ interf' = IF pc = "idle" THEN interf ELSE interf \cup {kind}
  /\ UNCHANGED <<locals, ops, movedFrom, fault, reads, prev, ncalls>>

\* the paths the other actor writes (one of the paths the call may name)
OtherPaths == {"a.txt"}

\* a push: a new commit on top of the head (or a root commit that creates
\* the branch), writing or deleting the file at one path
OtherPush(p, v) ==
  /\ nother < MaxOther
  /\ Len(commits) < MaxCommits
  /\ IF ref = NoRef
       THEN /\ v \in Contents
            /\ commits' = Append(commits,
                 [tree |-> [q \in Paths |-> IF q = p THEN v ELSE Absent],
                  parents |-> <<>>, by |-> "other"])
            /\ Noted("create")
       ELSE /\ v # TreeOf(ref)[p]
            /\ commits' = Append(commits,
                 [tree |-> [TreeOf(ref) EXCEPT ![p] = v],
                  parents |-> <<ref>>, by |-> "other"])
            /\ Noted("advance")
  /\ ref' = Len(commits) + 1

\* a forced update of the branch to another existing commit; the commit the
\* running call has created but not yet published is not known to others
OtherReset(c) ==
  /\ nother < MaxOther
  /\ ref # NoRef
  /\ c # ref
  /\ c # newCommit
  /\ ref' = c
  /\ UNCHANGED commits
  /\ Noted(IF IsAncestorOrEqual(ref, c) THEN "advance" ELSE "reset")

\* deletion of the branch
OtherDelete ==
  /\ nother < MaxOther
  /\ ref # NoRef
  /\ ref' = NoRef
  /\ UNCHANGED commits
  /\ Noted("delete")

\* ------------------------------------------------------------- Next
Step ==
  \/ CreateBlobInit
  \/ CreateTreeInit
  \/ CreateCommitInit
  \/ CreateRef
  \/ GetCommit
  \/ GetContents
  \/ CreateBlob
  \/ Recheck
  \/ CreateTree
  \/ CreateCommit
  \/ UpdateRef

\* one call, with the other actor writing the branch before and during it
Next ==
  \/ \E F \in FileSets : ncalls = 0 /\ Call(F)
  \/ \E F \in FileSets : ncalls = 0 /\ CallGetRefFails(F)
  \/ Step
  \/ \E p \in OtherPaths, v \in Contents \cup {Absent} : OtherPush(p, v)
  \/ \E c \in 1..Len(commits) : OtherReset(c)
  \/ OtherDelete

Spec == Init /\ [][Next]_vars

\* consecutive calls on a branch nobody else writes
NextSeq ==
  \/ \E F \in FileSets : Call(F)
  \/ \E F \in FileSets : CallGetRefFails(F)
  \/ Step

SpecSeq == Init /\ [][NextSeq]_vars

\* ------------------------------------------------------------- createRepo
\* responses of Repositories.Get: found; an error with status 404; an error
\* with another status; an error that carries no HTTP response
LookupResponses ==
  {[err |-> FALSE, resp |-> TRUE, code |-> 200],
   [err |-> TRUE, resp |-> TRUE, code |-> 404],
   [err |-> TRUE, resp |-> TRUE, code |-> 500],
   [err |-> TRUE, resp |-> FALSE, code |-> 0]}

\* the remote answers "found" or 404 only in agreement with what it holds
LookupPossible(r) ==
  /\ ~r.err => repoExists
  /\ (r.resp /\ r.code = 404) => ~repoExists

\* the lookup reported the existence of the repository (found or 404)
LookupReports(r) == ~r.err \/ (r.resp /\ r.code = 404)

\* line 189 never taken
LookupFoundNever(r) == FALSE

\* line 189: err == nil
LookupFound(r) == ~r.err

\* line 193: resp != nil && resp.StatusCode != 404
LookupIsFatal(r) == r.resp /\ r.code # 404

\* lines 184-195: the lookup and the two early returns
RepoLookup(r) ==
  /\ rpc \in {"idle", "done"}
  /\ rcalls < MaxRepoCalls
  /\ LookupPossible(r)
  /\ rcalls' = rcalls + 1
  /\ rlookup' = r
  /\ rexisted' = repoExists
  /\ rmade' = 0
  /\ rtruth' = (rtruth /\ LookupReports(r))
  /\ IF LookupFound(r) THEN rpc' = "done" /\ rerr' = Nil
     ELSE IF LookupIsFatal(r)
       THEN rpc' = "done" /\ rerr' = "Error checking if repo exists"
     ELSE rpc' = "create" /\ rerr' = Nil
  /\ UNCHANGED <<repoExists, rcreates, rfailed, remote, locals, ghosts, pvars>>

\* lines 197-212: Repositories.Create, accepted only if the name is free
RepoCreate ==
  /\ rpc = "create"
  /\ rmade' = rmade + 1
  /\ rcreates' = rcreates + 1
  /\ rpc' = "done"
  /\ \/ /\ ~repoExists
        /\ repoExists' = TRUE
        /\ rerr' = Nil
        /\ rfailed' = rfailed
     \/ /\ repoExists' = repoExists
        /\ rerr' = "Error creating repo"
        /\ rfailed' = rfailed + 1
  /\ UNCHANGED <<rlookup, rexisted, rtruth, rcalls, remote, locals, ghosts,
                 pvars>>

\* somebody else creates the repository
OtherCreatesRepo ==
  /\ ~repoExists
  /\ repoExists' = TRUE
  /\ UNCHANGED <<rpc, rlookup, rerr, rexisted, rmade, rcreates, rfailed,
                 rtruth, rcalls, remote, locals, ghosts, pvars>>

InitRepo ==
  /\ ref = NoRef /\ commits = <<>>
  /\ UpsertIdle
  /\ PeerIdle
  /\ repoExists \in BOOLEAN
  /\ rpc = "idle"
  /\ rlookup = [err |-> TRUE, resp |-> FALSE, code |-> 0]
  /\ rerr = Nil
  /\ rexisted = FALSE
  /\ rmade = 0
  /\ rcreates = 0
  /\ rfailed = 0
  /\ rtruth = TRUE
  /\ rcalls = 0

NextRepo ==
  \/ \E r \in LookupResponses : RepoLookup(r)
  \/ RepoCreate
  \/ OtherCreatesRepo

\* consecutive createRepo calls
SpecRepo == InitRepo /\ [][NextRepo]_vars

\* ------------------------------------------------------------- peer call
\* A second upsert call on the same branch, from its line 82 onwards, with
\* at least one tree entry.  Its file loop touches no shared state and is
\* folded into the start; its CreateTree is folded into its CreateCommit.

\* lines 24, 82: the peer resolves the branch and keeps its head
PeerStart ==
  /\ ppc = "idle"
  /\ ref # NoRef
  /\ pOrig' = ref
  /\ ppc' = "Recheck"
  /\ UNCHANGED <<pCommit, perr, remote, locals, ghosts, rvars>>

\* lines 143-149 of the peer
PeerRecheck ==
  /\ ppc = "Recheck"
  /\ \/ /\ ref # NoRef
        /\ IF ShaMismatch(ref, pOrig)
             THEN ppc' = "done" /\ perr' = "SHA mismatch"
             ELSE ppc' = "Commit" /\ perr' = perr
     \/ /\ ppc' = "done"
        /\ perr' = "Recheck GetRef"
  /\ UNCHANGED <<pOrig, pCommit, remote, locals, ghosts, rvars>>

\* lines 151-172 of the peer: a tree on top of its base tree with one
\* entry, and the commit whose parent is the head it started from
PeerCommit ==
  /\ ppc = "Commit"
  /\ \/ /\ Len(commits) < MaxCommits
        /\ \E p \in Paths, v \in Contents :
             commits' = Append(commits,
               [tree |-> RemoteCreateTree(UpdateTreeBase(<<TreeOf(pOrig)>>),
                                          Put(EmptyMap, p, v)),
                parents |-> UpdateParents(pOrig),
                by |-> "peer"])
        /\ pCommit' = Len(commits) + 1
        /\ ppc' = "UpdateRef"
        /\ perr' = perr
     \/ /\ UNCHANGED <<commits, pCommit>>
        /\ ppc' = "done"
        /\ perr' = "CreateCommit"
  /\ UNCHANGED <<ref, pOrig, locals, ghosts, rvars>>

\* lines 174-181 of the peer
PeerUpdateRef ==
  /\ ppc = "UpdateRef"
  /\ \/ /\ RemoteUpdateRefOk(pCommit, UpdateRefForce)
        /\ ref' = pCommit
        /\ perr' = ErrAfterUpdateRef(TRUE)
     \/ /\ ref' = ref
        /\ perr' = ErrAfterUpdateRef(FALSE)
  /\ ppc' = "done"
  /\ UNCHANGED <<commits, pOrig, pCommit, locals, ghosts, rvars>>

NextPair ==
  \/ \E F \in FileSets : ncalls = 0 /\ Call(F)
  \/ Step
  \/ PeerStart
  \/ PeerRecheck
  \/ PeerCommit
  \/ PeerUpdateRef

\* two upsert calls running concurrently, nobody else writing
SpecPair == Init /\ [][NextPair]_vars

\* ------------------------------------------------------------- claims
Statuses == {"created", "updated", "skipped", "error"}
Returned == pc = "done"
PathA    == refStatus \in {"404", "409"}
PathB    == refStatus = "ok"
\* the update loop ran to line 138
LoopDone == PathB /\ Returned /\ err \notin {"GetCommit", "baseCommit is nil"}

\* C1: the call's UpdateRef moves the branch ref only when the ref equals
\* originalHeadSHA at that moment; from any other value the update fails
\* and the ref keeps the other actor's value.
C1_RefMovesOnlyFromOriginalHead ==
  (PathB /\ movedFrom # <<>>) => movedFrom = <<originalHeadSHA>>

\* C2 as stated: whenever another actor advanced the branch between the
\* initial GetRef and the final ref update of a call on an existing branch,
\* the call returns the SHA mismatch error (remote failures other than the
\* rejected UpdateRef aside).
C2_AdvanceAlwaysShaMismatch ==
  (PathB /\ Returned /\ "advance" \in interf
     /\ (~fault \/ err = "UpdateRef"))
  => err = "SHA mismatch"

\* C2 amended: when other actors only advance the branch, and do so during
\* a call on an existing branch whose update loop completes, a call with no
\* tree entry returns nil and creates nothing; a call with an entry returns
\* an error and never moves the ref; the error is SHA mismatch exactly when
\* the recheck read a ref other than originalHeadSHA, and an advance after
\* a passed recheck surfaces as the UpdateRef error (or an earlier remote
\* failure).
C2_AdvanceDetected ==
  (LoopDone /\ interf = {"advance"}) =>
    IF treeEntries = EmptyMap
      THEN err = Nil /\ newCommit = NoCommit /\ movedFrom = <<>>
      ELSE /\ err \in {"Recheck GetRef", "SHA mismatch", "CreateTree",
                       "CreateCommit", "UpdateRef"}
           /\ movedFrom = <<>>
           /\ (err = "SHA mismatch")
                <=> (refCheck # NoCommit /\ refCheck # originalHeadSHA)

C2_Witness ==
  /\ LoopDone /\ interf = {"advance"}
  /\ refCheck = originalHeadSHA
  /\ err = "UpdateRef"
  /\ ref # originalHeadSHA /\ ref # newCommit

\* C3: a call that repeats the FileSet of a call that returned nil, with no
\* remote failure in either and nobody else writing the branch, reports
\* skipped for every path, creates no commit and does not write the ref.
C3_Idempotent ==
  (Returned /\ prev = <<files>> /\ ~fault) =>
    /\ err = Nil
    /\ result = [p \in DOMAIN files |-> "skipped"]
    /\ newCommit = NoCommit
    /\ movedFrom = <<>>

C3_Witness ==
  /\ Returned /\ prev = <<files>> /\ ~fault
  /\ DOMAIN files = Paths
  /\ \E c \in 1..Len(commits) : commits[c].by = "B"
  /\ result = [p \in Paths |-> "skipped"]

\* C4: when the initial GetRef reports 404 or 409 and no later remote call
\* fails, the call returns nil with created for every path, and the branch
\* points to a parentless commit whose tree holds exactly the FileSet.
C4_Bootstrap ==
  (Returned /\ PathA /\ ~fault) =>
    /\ err = Nil
    /\ result = [p \in DOMAIN files |-> "created"]
    /\ newCommit # NoCommit
    /\ ref = newCommit
    /\ commits[newCommit].parents = <<>>
    /\ commits[newCommit].tree =
         [p \in Paths |-> IF p \in DOMAIN files THEN files[p] ELSE Absent]

C4_Witness ==
  /\ Returned /\ refStatus = "409" /\ ~fault
  /\ DOMAIN files = Paths
  /\ ref = newCommit /\ newCommit # NoCommit

\* C5: on an existing branch, a call whose update loop ends with no tree
\* entry returns the outcome map with nil error, makes no recheck,
\* CreateTree, CreateCommit or UpdateRef call, and leaves ref and commit
\* objects as they are.
C5_NoOp ==
  (LoopDone /\ treeEntries = EmptyMap) =>
    /\ err = Nil
    /\ DOMAIN result = DOMAIN files
    /\ ops \cap {"Recheck", "CreateTree", "CreateCommit", "UpdateRef"} = {}
    /\ newCommit = NoCommit
    /\ movedFrom = <<>>

C5_Witness ==
  /\ LoopDone /\ treeEntries = EmptyMap
  /\ \E p, q \in DOMAIN files : result[p] = "skipped" /\ result[q] = "error"

\* C6: on both paths and for every FileSet, the empty one included, a
\* commit object is created only if at least one TreeEntry was collected.
C6_NoEmptyCommit ==
  newCommit # NoCommit => treeEntries # EmptyMap

\* C7 as stated: whenever the call returns, with or without error, the
\* outcome map has exactly one entry for each key of the FileSet.
C7_OneStatusPerPathAlways ==
  Returned => DOMAIN result = DOMAIN files

\* C7 amended: whenever the call returns, the outcome map has entries only
\* for keys of the FileSet, each with one of the four statuses; it has an
\* entry for every key unless the call aborted before finishing its loop:
\* it is empty after a GetRef or GetCommit abort, and after a bootstrap
\* CreateBlob failure it holds exactly the keys visited so far.
C7_OneStatusPerProcessedPath ==
  Returned =>
    /\ DOMAIN result \subseteq DOMAIN files
    /\ \A p \in DOMAIN result : result[p] \in Statuses
    /\ IF err \in {"GetRef", "GetCommit", "baseCommit is nil"}
         THEN result = EmptyMap
       ELSE IF err = "CreateBlob (init)"
         THEN DOMAIN result = DOMAIN files \ todo
       ELSE DOMAIN result = DOMAIN files

C7_Witness ==
  /\ Returned /\ err = "CreateBlob (init)"
  /\ DOMAIN result # DOMAIN files
  /\ \E p \in DOMAIN result : result[p] = "error"

\* C8: a call that returns a non-nil error has neither created nor moved
\* the branch ref.
C8_FailureLeavesRef ==
  (Returned /\ err # Nil) => movedFrom = <<>>

C8_Witness ==
  /\ Returned /\ err = "UpdateRef"
  /\ newCommit # NoCommit /\ ref # newCommit
  /\ movedFrom = <<>>

\* C9: the tree of a commit made on the update path agrees with the tree
\* of originalHeadSHA at every path without a collected entry.
C9_UntouchedPathsPreserved ==
  (PathB /\ newCommit # NoCommit) =>
    \A p \in Paths \ DOMAIN treeEntries :
      commits[newCommit].tree[p] = TreeOf(originalHeadSHA)[p]

\* C10: every commit made on the update path has exactly one parent, the
\* originalHeadSHA of its call; every commit made on the bootstrap path has
\* none; after a successful update the branch points to a commit whose
\* single parent is the head read at the start of the call.
C10_ParentLinkage ==
  /\ \A c \in 1..Len(commits) :
       /\ commits[c].by = "A" => commits[c].parents = <<>>
       /\ commits[c].by = "B" => Len(commits[c].parents) = 1
  /\ (PathB /\ newCommit # NoCommit) =>
       commits[newCommit].parents = <<originalHeadSHA>>
  /\ (PathB /\ Returned /\ err = Nil /\ newCommit # NoCommit) =>
       /\ ref = newCommit
       /\ commits[ref].parents = <<originalHeadSHA>>

C10_Witness ==
  /\ PathB /\ Returned /\ err = Nil
  /\ ref = newCommit /\ newCommit # NoCommit
  /\ commits[ref].parents = <<originalHeadSHA>>
  /\ movedFrom = <<originalHeadSHA>>

\* C11: on the update path the status a path has before any write is
\* created iff its content read reported 404, skipped iff the read
\* succeeded with content equal to the desired one, updated iff it
\* succeeded with different content, and error for every other read
\* outcome (read failure, decoding failure, no file content).
C11_Classification ==
  PathB =>
    \A p \in DOMAIN reads :
      reads[p].blob = "none" =>
        /\ result[p] = "created" <=> reads[p].kind = "404"
        /\ result[p] = "skipped" <=>
             (reads[p].kind = "file" /\ reads[p].content = files[p])
        /\ result[p] = "updated" <=>
             (reads[p].kind = "file" /\ reads[p].content # files[p])
        /\ result[p] = "error" <=>
             reads[p].kind \in {"err", "decodeErr", "dir"}

C11_Witness ==
  /\ LoopDone
  /\ \E p, q \in DOMAIN reads :
       /\ reads[p].blob = "none" /\ reads[q].blob = "none"
       /\ reads[p].kind = "decodeErr" /\ result[p] = "error"
       /\ reads[q].kind = "file" /\ result[q] = "skipped"

\* C12: when CreateBlob fails for a path that the read classified as
\* created or updated, the outcome of that path is error and no TreeEntry
\* is appended for it.
C12_BlobFailureIsError ==
  PathB =>
    \A p \in DOMAIN reads :
      (reads[p].blob = "failed" /\ reads[p].kind \in {"404", "file"}) =>
        /\ result[p] = "error"
        /\ p \notin DOMAIN treeEntries

RepoReturned == rpc = "done" /\ rcalls > 0

\* C13: when the lookup fails with anything but 404 (another status, or no
\* HTTP response at all), createRepo returns an error and makes no
\* repository-creation call.
C13_LookupErrorPropagates ==
  (rcalls > 0 /\ rlookup.err /\ ~(rlookup.resp /\ rlookup.code = 404)) =>
    /\ rpc = "done"
    /\ rerr # Nil
    /\ rmade = 0

\* C14 as stated: while lookups report the true existence, the
\* repository-creation call is made at most once over all calls.
C14_CreateCalledAtMostOnce ==
  rtruth => rcreates <= 1

\* C14 amended: while lookups report the true existence, a creation call
\* is made only by a call whose lookup found the repository absent, and
\* again only after every earlier creation call failed; a call whose lookup
\* finds the repository returns nil and makes no remote write.
C14_CreateOnlyWhenAbsent ==
  rtruth =>
    /\ rmade > 0 => ~rexisted
    /\ rpc = "create" => ~rexisted
    /\ rcreates <= rfailed + 1
    /\ (RepoReturned /\ rexisted) => (rerr = Nil /\ rmade = 0)

C14_Witness ==
  /\ rtruth /\ RepoReturned /\ rexisted
  /\ rerr = Nil /\ rmade = 0
  /\ rcreates = 1 /\ rfailed = 0
  /\ rcalls >= 2

\* the update loop has processed every key of files (line 138 reached)
LoopEnded ==
  \/ PathB /\ pc \in {"Recheck", "CreateTree", "CreateCommit", "UpdateRef"}
  \/ LoopDone

\* C15: at the end of the update loop a TreeEntry exists for a path exactly
\* when its outcome is created or updated; a skipped or error path has none,
\* also when the read returned no file content without an error.  Paths
\* whose CreateBlob failed are the subject of C12 and are left aside here.
C15_EntriesMatchStatuses ==
  LoopEnded =>
    \A p \in DOMAIN files :
      (p \in DOMAIN reads /\ reads[p].blob # "failed") =>
        (p \in DOMAIN treeEntries
           <=> (p \in DOMAIN result /\ result[p] \in {"created", "updated"}))

\* GetCommit answered without a commit, or with a commit that names no tree
InconsistentBase ==
  /\ PathB
  /\ "GetCommit" \in ops
  /\ err # "GetCommit"
  /\ baseTreeSHA = <<>>

\* C16: when the commit at originalHeadSHA is absent or has no tree
\* reference, the call returns an error before processing any file and
\* never calls CreateTree, CreateCommit or UpdateRef.
C16_InconsistentBaseFatal ==
  InconsistentBase =>
    /\ Returned
    /\ err # Nil
    /\ ops \subseteq {"GetRef", "GetCommit"}

\* the bootstrap path (lines 27-77) is being or has been executed
BootstrapTaken ==
  \/ pc \in {"CreateBlobInit", "CreateTreeInit", "CreateCommitInit",
             "CreateRef"}
  \/ Returned /\ err \in {Nil, "CreateBlob (init)", "CreateTree (init)",
                          "CreateCommit (init)", "CreateRef (init)"}

\* the update path (lines 82-181) is being or has been executed
UpdateTaken ==
  /\ "CreateRef" \notin ops
  /\ pc # "done" \/ "GetCommit" \in ops
  /\ err # "GetRef"

\* C17: the bootstrap path is taken exactly when the initial GetRef fails
\* with 404 or 409; any other GetRef failure returns the GetRef error with
\* an empty outcome map and no blob, tree, commit or ref call; a successful
\* GetRef takes the update path.
C17_PathSelection ==
  /\ PathA =>
       /\ BootstrapTaken
       /\ ops \cap {"GetCommit", "GetContents", "Recheck", "UpdateRef"} = {}
  /\ refStatus \in OtherGetRefFailures =>
       /\ Returned
       /\ err = "GetRef"
       /\ result = EmptyMap
       /\ ops = {"GetRef"}
       /\ newCommit = NoCommit
       /\ movedFrom = <<>>
  /\ PathB => UpdateTaken

C17_Witness ==
  /\ refStatus = "500"
  /\ files # EmptyMap
  /\ Returned /\ err = "GetRef"
  /\ result = EmptyMap

\* C18: when a call returns nil and nobody else wrote the branch, every path
\* reported created, updated or skipped has its desired content in the tree
\* of the commit the branch points to, also when CreateBlob failed for some
\* paths of the call.
C18_TruthfulOutcome ==
  (Returned /\ ncalls > 0 /\ err = Nil /\ interf = {}) =>
    \A p \in DOMAIN result :
      result[p] \in {"created", "updated", "skipped"} =>
        /\ ref # NoRef
        /\ TreeOf(ref)[p] = files[p]

\* what a content read of path p observes in the tree of commit c
ContentsAt(c, p) ==
  LET v == TreeOf(c)[p] IN
  IF v = Absent THEN [kind |-> "404", content |-> ""]
  ELSE IF v = Dir THEN [kind |-> "dir", content |-> ""]
  ELSE [kind |-> "file", content |-> v]

\* the recheck let the call go on to CreateTree
WentOnToCommit ==
  /\ PathB
  /\ pc \in {"CreateTree", "CreateCommit", "UpdateRef"} \/ "CreateTree" \in ops

\* C20: contents are read at the branch name; when a call on an existing
\* branch goes on to create its commit and other actors only advanced the
\* branch, every answered content read saw the tree of originalHeadSHA.
C20_ReadsSawOriginalHead ==
  (WentOnToCommit /\ interf \subseteq {"advance"}) =>
    \A p \in DOMAIN reads :
      reads[p].kind \in {"404", "file", "dir"} =>
        /\ reads[p].kind = ContentsAt(originalHeadSHA, p).kind
        /\ reads[p].content = ContentsAt(originalHeadSHA, p).content

C20_Witness ==
  /\ WentOnToCommit
  /\ interf = {"advance"}
  /\ Returned /\ err = "UpdateRef"
  /\ \E p \in DOMAIN reads : reads[p].kind = "file" /\ reads[p].blob = "ok"

\* the peer call has moved the branch ref to its commit
PeerMoved == ppc = "done" /\ perr = Nil

\* both calls returned, started from the same head of an existing branch,
\* and each had at least one tree entry
PairDone ==
  /\ PathB /\ LoopDone /\ treeEntries # EmptyMap
  /\ ppc = "done"
  /\ pOrig = originalHeadSHA

\* C19: of two concurrent upsert calls that start from the same head and
\* both have a tree entry, at most one moves the branch ref and the other
\* returns an error; the commit of every call that returned nil stays
\* reachable from the branch head.
C19_NoLostUpdate ==
  PairDone =>
    /\ ~(movedFrom # <<>> /\ PeerMoved)
    /\ movedFrom # <<>> => perr # Nil
    /\ PeerMoved => (err # Nil /\ movedFrom = <<>>)
    /\ err = Nil => (newCommit # NoCommit /\ IsAncestorOrEqual(newCommit, ref))
    /\ perr = Nil => (pCommit # NoCommit /\ IsAncestorOrEqual(pCommit, ref))

C19_Witness ==
  /\ PairDone
  /\ PeerMoved
  /\ err = "UpdateRef"
  /\ newCommit # NoCommit /\ pCommit # NoCommit
  /\ ref = pCommit

=============================================================================
